---------------------------- MODULE Spec2Model ----------------------------
(***************************************************************************)
(* Model of the filesystem inspection tools of view_directory_tools.py and *)
(* view_file_tools.py (list_directories, list_files,                       *)
(* show_directory_structure, view_file, view_file_lines), and of the       *)
(* clone-and-vectorize pipeline of agent.py (main, clone_repository,       *)
(* vectorize_repository).                                                  *)
(*                                                                         *)
(* A Python string is a sequence of one-character strings.  A tool result  *)
(* is a sequence of lines, a line a sequence of parts (the pieces of the   *)
(* f-string that builds it: literals, path strings, numbers).              *)
(***************************************************************************)
EXTENDS Integers, Sequences, FiniteSets, TLC

VARIABLES
    fs,       \* the host filesystem: path (sequence of names) -> node
    call,     \* the tool invocation in progress or last made: tool and arguments
    result,   \* what that invocation produced, and the filesystem calls it made
    sanIn,    \* an input of the path clean-up: a path text and its wrapping
    sanOut,   \* the normalized path computed from it
    granted,  \* the directories made readable since the result was produced
    repo,     \* what is at the repository path on disk
    vdb,      \* the vector database directory and the index under it
    remote,   \* the number of Python documents of the repository that is cloned
    run       \* the last run of main: its flag, how it ended, what it printed and did

PipeVars == <<repo, vdb, remote, run>>
vars == <<fs, call, result, sanIn, sanOut, granted, PipeVars>>


Min(S) == CHOOSE x \in S : \A y \in S : x <= y
Max(S) == CHOOSE x \in S : \A y \in S : x >= y

(***************************************************************************)
(* Python string primitives                                                *)
(***************************************************************************)
\* str.isspace for the characters of the model
IsWs(c) == c \in {" ", "\n", "\t"}

\* str.strip()
Strip(s) ==
    LET I == {i \in 1..Len(s) : ~IsWs(s[i])}
    IN IF I = {} THEN <<>> ELSE SubSeq(s, Min(I), Max(I))

\* s[i:].startswith(t), i 1-indexed
StartsWithAt(s, i, t) ==
    /\ i + Len(t) - 1 <= Len(s)
    /\ SubSeq(s, i, i + Len(t) - 1) = t

\* the position after a greedy whitespace run that starts at i
SkipWs(s, i) ==
    LET J == {j \in i..Len(s) : ~IsWs(s[j])}
    IN IF J = {} THEN Max({i, Len(s) + 1}) ELSE Min(J)

\* The backtick character, which a TLA+ string literal cannot hold.
Backtick == "<backtick>"

Fence == <<Backtick, Backtick, Backtick>>

\* the optional language hints of the leading alternative, in the order
\* the regex tries them
LangHints ==
    << <<"j","s","o","n">>,
       <<"p","y","t","h","o","n">>,
       <<"t","e","x","t">>,
       <<"s","h">>,
       <<"b","a","s","h">>,
       <<"p","l","a","i","n","t","e","x","t">> >>

\* The leading alternative (start of string, whitespace, fence, optional
\* hint, whitespace): the index of the last character it matches, 0 when
\* it does not match.  Nothing after the fence can fail, so the first hint
\* that matches (in order) is the one taken, and the whitespace run takes all it can.
LeadingFenceEnd(s) ==
    LET a == SkipWs(s, 1)
    IN IF ~StartsWithAt(s, a, Fence) THEN 0
       ELSE LET b == a + 3
                H == {k \in 1..Len(LangHints) : StartsWithAt(s, b, LangHints[k])}
                c == IF H = {} THEN b ELSE b + Len(LangHints[Min(H)])
            IN SkipWs(s, c) - 1

\* The trailing alternative (whitespace, fence, whitespace, end of string)
\* matches from position i to the end of the string
TrailingFenceAt(s, i) ==
    LET a == SkipWs(s, i)
    IN /\ StartsWithAt(s, a, Fence)
       /\ SkipWs(s, a + 3) = Len(s) + 1

\* re.sub of the fence pattern by the empty string: the leading alternative
\* at the start, then the leftmost trailing match after it
StripFences(s) ==
    LET e == LeadingFenceEnd(s)
        T == {i \in (e + 1)..Len(s) : TrailingFenceAt(s, i)}
        t == IF T = {} THEN Len(s) + 1 ELSE Min(T)
    IN SubSeq(s, e + 1, t - 1)

\* re.sub deleting every newline and backtick
RemoveNewlinesBackticks(s) == SelectSeq(s, LAMBDA c : c \notin {"\n", Backtick})

\* the clean-up every tool starts with
CleanPath(raw) == Strip(RemoveNewlinesBackticks(StripFences(Strip(raw))))

(***************************************************************************)
(* os.path: string operations                                              *)
(***************************************************************************)
Sep == "/"
Dot == <<".">>
DotDot == <<".", ".">>

\* the working directory of the process and the HOME of its user
CwdPath == <<"/", "a">>
HomeDir == <<"/", "h">>

Returned(v) == [raised |-> FALSE, val |-> v]
Raised(e) == [raised |-> TRUE, exc |-> e]

\* s.count(os.sep)
CountSep(s) == Cardinality({i \in 1..Len(s) : s[i] = Sep})

\* s.split("/")
RECURSIVE SplitSep(_)
SplitSep(s) ==
    LET I == {i \in 1..Len(s) : s[i] = Sep}
    IN IF I = {} THEN <<s>>
       ELSE <<SubSeq(s, 1, Min(I) - 1)>> \o SplitSep(SubSeq(s, Min(I) + 1, Len(s)))

\* "/".join(comps)
RECURSIVE JoinSep(_)
JoinSep(comps) ==
    IF comps = <<>> THEN <<>>
    ELSE IF Len(comps) = 1 THEN comps[1]
    ELSE comps[1] \o <<Sep>> \o JoinSep(Tail(comps))

\* os.path.join(a, b)
PathJoin(a, b) ==
    IF b # <<>> /\ b[1] = Sep THEN b
    ELSE IF a = <<>> \/ a[Len(a)] = Sep THEN a \o b
    ELSE a \o <<Sep>> \o b

\* the component loop of os.path.normpath
RECURSIVE NormComps(_, _, _)
NormComps(comps, acc, initial) ==
    IF comps = <<>> THEN acc
    ELSE LET c == Head(comps)
             rest == Tail(comps)
         IN IF c \in {<<>>, Dot} THEN NormComps(rest, acc, initial)
            ELSE IF \/ c # DotDot
                    \/ (initial = 0 /\ acc = <<>>)
                    \/ (acc # <<>> /\ acc[Len(acc)] = DotDot)
                 THEN NormComps(rest, Append(acc, c), initial)
            ELSE IF acc # <<>>
                 THEN NormComps(rest, SubSeq(acc, 1, Len(acc) - 1), initial)
            ELSE NormComps(rest, acc, initial)

\* os.path.normpath (POSIX): exactly two leading slashes are kept
NormPath(path) ==
    IF path = <<>> THEN Dot
    ELSE LET initial ==
                 IF path[1] # Sep THEN 0
                 ELSE IF StartsWithAt(path, 1, <<Sep, Sep>>)
                         /\ ~StartsWithAt(path, 1, <<Sep, Sep, Sep>>) THEN 2
                 ELSE 1
             body == JoinSep(NormComps(SplitSep(path), <<>>, initial))
             p == [i \in 1..initial |-> Sep] \o body
         IN IF p = <<>> THEN Dot ELSE p

\* os.path.expanduser: "~" and "~/..." use HOME; "~name" has no such user in
\* the model's password database and is left as it is
ExpandUser(path) ==
    IF path = <<>> \/ path[1] # "~" THEN path
    ELSE LET I == {i \in 2..Len(path) : path[i] = Sep}
             i == IF I = {} THEN Len(path) + 1 ELSE Min(I)
         IN IF i # 2 THEN path
            ELSE LET H == {k \in 1..Len(HomeDir) : HomeDir[k] # Sep}
                     home == IF H = {} THEN <<>> ELSE SubSeq(HomeDir, 1, Max(H))
                     p == home \o SubSeq(path, i, Len(path))
                 IN IF p = <<>> THEN <<Sep>> ELSE p

(***************************************************************************)
(* The filesystem.  fs maps the path of every entry (the sequence of its   *)
(* names from "/") to a node; the domain is closed under prefixes and      *)
(* every proper prefix is a directory.                                     *)
(*   kind     "dir", "file", or "dangling" (a symbolic link to nothing)    *)
(*   denied   no read permission: listing or opening it fails              *)
(*   entries  a directory's names, in the order the system enumerates them *)
(*   text     a file's content, followed by fill more bytes (no newline    *)
(*   fill       among them): its size is Len(text) + fill                  *)
(***************************************************************************)
DirNode(entries, denied) ==
    [kind |-> "dir", denied |-> denied, entries |-> entries, text |-> <<>>, fill |-> 0]
FileNode(text, fill, denied) ==
    [kind |-> "file", denied |-> denied, entries |-> <<>>, text |-> text, fill |-> fill]
DanglingNode ==
    [kind |-> "dangling", denied |-> FALSE, entries |-> <<>>, text |-> <<>>, fill |-> 0]

\* the names of an absolute normalized path
Comps(p) == SelectSeq(SplitSep(p), LAMBDA c : c # <<>>)

\* the node a path leads to (os.stat following links)
MissingNode ==
    [kind |-> "missing", denied |-> FALSE, entries |-> <<>>, text |-> <<>>, fill |-> 0]
NodeOf(c) == IF c \in DOMAIN fs THEN fs[c] ELSE MissingNode
NodeAt(p) == NodeOf(Comps(p))

KindOf(p) == NodeAt(p).kind

\* os.path.exists, os.path.isdir, os.path.isfile: they follow links and
\* answer False where the system call fails
PathExists(p) == KindOf(p) \in {"dir", "file"}
IsDir(p) == KindOf(p) = "dir"
IsFile(p) == KindOf(p) = "file"

\* os.getcwd: fails once the working directory has been removed
GetCwd ==
    IF IsDir(CwdPath) THEN [raised |-> FALSE, exc |-> "", val |-> CwdPath]
    ELSE [raised |-> TRUE, exc |-> "FileNotFoundError", val |-> <<>>]

\* os.path.abspath, given what os.getcwd() does
AbsPathFrom(path, cwd) ==
    IF path # <<>> /\ path[1] = Sep THEN Returned(NormPath(path))
    ELSE IF cwd.raised THEN Raised(cwd.exc)
    ELSE Returned(NormPath(PathJoin(cwd.val, path)))

AbsPath(path) == AbsPathFrom(path, GetCwd)

\* os.path.abspath(os.path.expanduser(cleaned))
NormalizePath(cleaned) == AbsPath(ExpandUser(cleaned))

\* os.listdir of the node n
ListDirNode(n) ==
    CASE n.kind = "dir" ->
             IF n.denied THEN Raised("PermissionError") ELSE Returned(n.entries)
      [] n.kind = "file" -> Raised("NotADirectoryError")
      [] OTHER -> Raised("FileNotFoundError")

ListDir(p) == ListDirNode(NodeAt(p))

DirBlockSize == 4096

\* os.path.getsize of the node n
GetSizeNode(n) ==
    CASE n.kind = "file" -> Returned(Len(n.text) + n.fill)
      [] n.kind = "dir" -> Returned(DirBlockSize)
      [] OTHER -> Raised("FileNotFoundError")

GetSize(p) == GetSizeNode(NodeAt(p))

\* open(p, "r", encoding="utf-8", errors="replace") on the node n, and the
\* text a read then gives
OpenReadNode(n) ==
    CASE n.kind = "file" ->
             IF n.denied THEN Raised("PermissionError")
             ELSE Returned([text |-> n.text, fill |-> n.fill])
      [] n.kind = "dir" -> Raised("IsADirectoryError")
      [] OTHER -> Raised("FileNotFoundError")

OpenRead(p) == OpenReadNode(NodeAt(p))

(***************************************************************************)
(* Tool results.  A result is the list of segments the tool joins with     *)
(* newlines; a segment is a sequence of tokens: the literals of the        *)
(* f-string, the characters of a path or name, the digits of a number.     *)
(* io lists the filesystem calls the invocation made, in order.            *)
(***************************************************************************)
Digit(d) == CASE d = 0 -> "0" [] d = 1 -> "1" [] d = 2 -> "2" [] d = 3 -> "3"
              [] d = 4 -> "4" [] d = 5 -> "5" [] d = 6 -> "6" [] d = 7 -> "7"
              [] d = 8 -> "8" [] d = 9 -> "9"

\* str(n) of an integer
RECURSIVE Dec(_)
Dec(n) ==
    IF n < 0 THEN <<"-">> \o Dec(0 - n)
    ELSE IF n < 10 THEN <<Digit(n)>>
    ELSE Dec(n \div 10) \o <<Digit(n % 10)>>

\* format(n, "4d"): right-aligned in four columns
Dec4(n) ==
    LET d == Dec(n)
    IN [i \in 1..(IF Len(d) < 4 THEN 4 - Len(d) ELSE 0) |-> " "] \o d

ErrorHead == "[Error]: "

\* the tool returned the string made of segs
ToolReturn(segs, io) == [raised |-> FALSE, exc |-> "", out |-> segs, io |-> io]
\* an exception left the tool
ToolRaise(exc, io) == [raised |-> TRUE, exc |-> exc, out |-> <<>>, io |-> io]

\* whether a result is one of the tools' error strings
IsError(r) == ~r.raised /\ Len(r.out) = 1 /\ r.out[1] # <<>> /\ r.out[1][1] = ErrorHead

(***************************************************************************)
(* The preamble of the three directory tools: clean the path, normalize    *)
(* it, check that it exists and is a directory.  ok: the checks passed and *)
(* path is the normalized directory; otherwise res is the tool's result.   *)
(***************************************************************************)
\* the checks of a directory tool asking for the type ahead of the existence
DirChecksTypeFirst(cleaned, n) ==
    IF n.raised
    THEN [ok |-> FALSE, path |-> <<>>,
          res |-> ToolReturn(<< <<ErrorHead, "Could not normalize path '">> \o cleaned
                                  \o <<"': ", n.exc>> >>, <<"abspath">>)]
    ELSE IF ~IsDir(n.val)
    THEN [ok |-> FALSE, path |-> n.val,
          res |-> ToolReturn(<< <<ErrorHead, "Path exists but is not a directory: ">>
                                  \o n.val >>,
                             <<"abspath", "isdir">>)]
    ELSE [ok |-> TRUE, path |-> n.val,
          res |-> ToolReturn(<<>>, <<"abspath", "isdir">>)]

DirChecks(cleaned, n) ==
    IF n.raised
    THEN [ok |-> FALSE, path |-> <<>>,
          res |-> ToolReturn(<< <<ErrorHead, "Could not normalize path '">> \o cleaned
                                  \o <<"': ", n.exc>> >>, <<"abspath">>)]
    ELSE IF ~PathExists(n.val)
    THEN [ok |-> FALSE, path |-> n.val,
          res |-> ToolReturn(<< <<ErrorHead, "Directory does not exist: ">> \o n.val >>,
                             <<"abspath", "exists">>)]
    ELSE IF ~IsDir(n.val)
    THEN [ok |-> FALSE, path |-> n.val,
          res |-> ToolReturn(<< <<ErrorHead, "Path exists but is not a directory: ">>
                                  \o n.val >>,
                             <<"abspath", "exists", "isdir">>)]
    ELSE [ok |-> TRUE, path |-> n.val,
          res |-> ToolReturn(<<>>, <<"abspath", "exists", "isdir">>)]

DirPreambleClean(cleaned) == DirChecks(cleaned, NormalizePath(cleaned))
DirPreamble(raw) == DirPreambleClean(CleanPath(raw))

\* the preamble of the two file tools: the same, for a regular file
FileChecks(cleaned, n) ==
    IF n.raised
    THEN [ok |-> FALSE, path |-> <<>>,
          res |-> ToolReturn(<< <<ErrorHead, "Could not normalize path '">> \o cleaned
                                  \o <<"': ", n.exc>> >>, <<"abspath">>)]
    ELSE IF ~PathExists(n.val)
    THEN [ok |-> FALSE, path |-> n.val,
          res |-> ToolReturn(<< <<ErrorHead, "File does not exist: ">> \o n.val >>,
                             <<"abspath", "exists">>)]
    ELSE IF ~IsFile(n.val)
    THEN [ok |-> FALSE, path |-> n.val,
          res |-> ToolReturn(<< <<ErrorHead, "Path exists but is not a file: ">>
                                  \o n.val >>,
                             <<"abspath", "exists", "isfile">>)]
    ELSE [ok |-> TRUE, path |-> n.val,
          res |-> ToolReturn(<<>>, <<"abspath", "exists", "isfile">>)]

FilePreambleClean(cleaned) == FileChecks(cleaned, NormalizePath(cleaned))
FilePreamble(raw) == FilePreambleClean(CleanPath(raw))

(***************************************************************************)
(* list_directories                                                        *)
(***************************************************************************)
S_venv == <<"v","e","n","v">>
S_env == <<"e","n","v">>
S_node_modules == <<"n","o","d","e","_","m","o","d","u","l","e","s">>
S_git == <<".","g","i","t">>
S_pycache == <<"_","_","p","y","c","a","c","h","e","_","_">>
S_dotvenv == <<".","v","e","n","v">>
S_vtm_venv == <<"v","t","m","_","v","e","n","v">>
S_pytest_cache == <<".","p","y","t","e","s","t","_","c","a","c","h","e">>
S_DS_Store == <<".","D","S","_","S","t","o","r","e">>

\* exclude_dirs without ".git"
ExcludeDirsNoGit ==
    {S_venv, S_env, S_node_modules, S_pycache, S_dotvenv, S_vtm_venv, S_pytest_cache}

\* exclude_dirs of list_directories
ExcludeDirs ==
    {S_venv, S_env, S_node_modules, S_git, S_pycache, S_dotvenv, S_vtm_venv,
     S_pytest_cache}

\* max_depth of list_directories
ListMaxDepth == 2

RECURSIVE Concat(_)
Concat(seqs) == IF seqs = <<>> THEN <<>> ELSE Head(seqs) \o Concat(Tail(seqs))

\* One round of the loop over os.walk(normalized_directory): root is the
\* directory os.walk yields, dirs its entries that are directories.  The
\* "Directory: " lines in the order they are appended, those of the
\* directories os.walk then descends into included.
RECURSIVE WalkLines(_, _)
DirectoryLines(root, shown) ==
    [i \in 1..Len(shown) |-> <<"Directory: ">> \o PathJoin(root, shown[i])]
WalkRound(root, baseDepth, dirs) ==
    IF CountSep(root) - baseDepth >= ListMaxDepth THEN <<>>
    ELSE DirectoryLines(root, SelectSeq(dirs, LAMBDA d : IsDir(PathJoin(root, d))))
         \o Concat([i \in 1..Len(dirs) |-> WalkLines(PathJoin(root, dirs[i]), baseDepth)])

\* os.walk from root on: a directory it cannot list is skipped; the loop
\* body keeps in dirs the directories that are not excluded
WalkListed(root, baseDepth, ld) ==
    IF ld.raised THEN <<>>
    ELSE WalkRound(root, baseDepth,
                   SelectSeq(ld.val, LAMBDA d : IsDir(PathJoin(root, d))
                                                  /\ d \notin ExcludeDirs))

WalkLines(root, baseDepth) == WalkListed(root, baseDepth, ListDir(root))

\* the end of the try block of list_directories
ListDirectoriesResult(nd, directories) ==
    IF Len(directories) <= 1
    THEN << <<"Only found the root directory: ">> \o nd
              \o <<". No subdirectories found.">> >>
    ELSE directories

\* the try block of list_directories
ListDirectoriesBody(nd) ==
    ListDirectoriesResult(nd, << <<"Root Directory: ">> \o nd >> \o WalkLines(nd, CountSep(nd)))

ListDirectoriesAfter(pre) ==
    IF ~pre.ok THEN pre.res
    ELSE ToolReturn(ListDirectoriesBody(pre.path), pre.res.io \o <<"walk">>)

ListDirectoriesRun(raw) == ListDirectoriesAfter(DirPreamble(raw))

(***************************************************************************)
(* list_files                                                              *)
(***************************************************************************)
\* max_files of list_files
MaxFilesShown == 50

TruncationNotice ==
    <<"... (more files exist but limited to ">> \o Dec(MaxFilesShown) \o <<" for display)">>

\* one "File: " line: with the size, or without it when getsize fails
FileLineSized(itemPath, sz) ==
    IF sz.raised THEN <<"File: ">> \o itemPath
    ELSE <<"File: ">> \o itemPath \o <<" (">> \o Dec(sz.val) \o <<" bytes)">>

FileLine(itemPath) == FileLineSized(itemPath, GetSize(itemPath))

\* the loop over os.listdir(normalized_directory), from item i on, with the
\* list files built so far
RECURSIVE ListFilesLoop(_, _, _, _)
ListFilesItem(nd, items, i, files, itemPath) ==
    IF IsFile(itemPath)
    THEN ListFilesLoop(nd, items, i + 1, Append(files, FileLine(itemPath)))
    ELSE ListFilesLoop(nd, items, i + 1, files)

\* the loop of list_files stopping one entry late
ListFilesLoopLate(nd, items, i, files) ==
    IF i > Len(items) THEN files
    ELSE IF Len(files) > MaxFilesShown THEN Append(files, TruncationNotice)
    ELSE ListFilesItem(nd, items, i, files, PathJoin(nd, items[i]))

ListFilesLoop(nd, items, i, files) ==
    IF i > Len(items) THEN files
    ELSE IF Len(files) >= MaxFilesShown THEN Append(files, TruncationNotice)
    ELSE ListFilesItem(nd, items, i, files, PathJoin(nd, items[i]))

\* the end of the try block of list_files without the test for no files
ListFilesResultHeaderOnly(nd, files) ==
    Returned(<< <<"Files in ">> \o nd \o <<":">> >> \o files)

\* the end of the try block of list_files
ListFilesResult(nd, files) ==
    IF files = <<>>
    THEN Returned(<< <<"No files found in ">> \o nd >>)
    ELSE Returned(<< <<"Files in ">> \o nd \o <<":">> >> \o files)

\* the try block of list_files, given what os.listdir does
ListFilesListed(nd, ld) ==
    IF ld.raised THEN ld
    ELSE ListFilesResult(nd, ListFilesLoop(nd, ld.val, 1, <<>>))

ListFilesBody(nd) == ListFilesListed(nd, ListDir(nd))

\* the except clause of list_files
ListFilesExcept(r, io) ==
    IF r.raised
    THEN ToolReturn(<< <<ErrorHead, "Failed to list files: ", r.exc>> >>, io)
    ELSE ToolReturn(r.val, io)

ListFilesAfter(pre) ==
    IF ~pre.ok THEN pre.res
    ELSE ListFilesExcept(ListFilesBody(pre.path), pre.res.io \o <<"listdir">>)

ListFilesRun(raw) == ListFilesAfter(DirPreamble(raw))

(***************************************************************************)
(* show_directory_structure                                                *)
(***************************************************************************)
\* exclude_items of build_tree
ExcludeItems ==
    {S_venv, S_env, S_node_modules, S_git, S_pycache, S_dotvenv, S_vtm_venv,
     S_pytest_cache, S_DS_Store}

\* max_depth of build_tree
TreeMaxDepth == 2

\* the box-drawing pieces
BranchConn == "|-- "
LastConn == "'-- "
BranchPrefix == "|   "
LastPrefix == "    "

\* ord() of the characters names are made of
CharCode(c) ==
    CASE c = "." -> 46 [] c = "0" -> 48 [] c = "1" -> 49 [] c = "2" -> 50
      [] c = "3" -> 51 [] c = "4" -> 52 [] c = "5" -> 53 [] c = "6" -> 54
      [] c = "7" -> 55 [] c = "D" -> 68 [] c = "S" -> 83 [] c = "_" -> 95
      [] c = "a" -> 97 [] c = "b" -> 98 [] c = "c" -> 99 [] c = "d" -> 100
      [] c = "e" -> 101 [] c = "f" -> 102 [] c = "g" -> 103 [] c = "h" -> 104
      [] c = "i" -> 105 [] c = "l" -> 108 [] c = "m" -> 109 [] c = "n" -> 110
      [] c = "o" -> 111 [] c = "p" -> 112 [] c = "r" -> 114 [] c = "s" -> 115
      [] c = "t" -> 116 [] c = "u" -> 117 [] c = "v" -> 118 [] c = "x" -> 120
      [] c = "y" -> 121 [] c = "~" -> 126

\* a < b for Python strings: by code point, a proper prefix first
StrLess(a, b) ==
    LET D == {i \in 1..Min({Len(a), Len(b)}) : a[i] # b[i]}
    IN IF D = {} THEN Len(a) < Len(b)
       ELSE CharCode(a[Min(D)]) < CharCode(b[Min(D)])

\* the items in the order os.listdir gave them
Unsorted(items) == items

\* sorted(items) for the distinct names of one directory
Sorted(items) ==
    [i \in 1..Len(items) |->
        items[CHOOSE j \in 1..Len(items) :
                 Cardinality({k \in 1..Len(items) : StrLess(items[k], items[j])}) = i - 1]]

\* build_tree(path, prefix, max_depth, current_depth): its list of lines
RECURSIVE BuildTree(_, _, _)

\* the line of a file: with the size, or without it when getsize fails
TreeFileLine(currentPrefix, item, sz) ==
    IF sz.raised THEN currentPrefix \o item
    ELSE currentPrefix \o item \o <<" (">> \o Dec(sz.val) \o <<" bytes)">>

\* one round of the loop over items: the lines of the item
TreeItemLines(itemPath, prefix, currentDepth, item, isLast) ==
    IF IsDir(itemPath)
    THEN << prefix \o <<IF isLast THEN LastConn ELSE BranchConn>> \o item \o <<"/">> >>
         \o BuildTree(itemPath, prefix \o <<IF isLast THEN LastPrefix ELSE BranchPrefix>>,
                      currentDepth + 1)
    ELSE << TreeFileLine(prefix \o <<IF isLast THEN LastConn ELSE BranchConn>>, item,
                         GetSize(itemPath)) >>

\* the loop over the sorted and filtered items
TreeLoop(path, prefix, currentDepth, items) ==
    Concat([i \in 1..Len(items) |->
               TreeItemLines(PathJoin(path, items[i]), prefix, currentDepth, items[i],
                             i = Len(items))])

\* build_tree giving no line for a directory it cannot read
TreeListedSilent(path, prefix, currentDepth, ld) ==
    IF ld.raised THEN <<>>
    ELSE TreeLoop(path, prefix, currentDepth,
                  SelectSeq(Sorted(ld.val), LAMBDA it : it \notin ExcludeItems))

\* the try block and the except clause of build_tree, given what
\* os.listdir does
TreeListed(path, prefix, currentDepth, ld) ==
    IF ld.raised
    THEN << prefix \o <<"[Error reading directory: ", ld.exc, "]">> >>
    ELSE TreeLoop(path, prefix, currentDepth,
                  SelectSeq(Sorted(ld.val), LAMBDA it : it \notin ExcludeItems))

BuildTree(path, prefix, currentDepth) ==
    IF currentDepth >= TreeMaxDepth THEN <<>>
    ELSE TreeListed(path, prefix, currentDepth, ListDir(path))

ShowStructureAfter(pre) ==
    IF ~pre.ok THEN pre.res
    ELSE ToolReturn(<< pre.path \o <<"/">> >> \o BuildTree(pre.path, <<>>, 0),
                    pre.res.io \o <<"listdir">>)

ShowStructureRun(raw) == ShowStructureAfter(DirPreamble(raw))

(***************************************************************************)
(* view_file and view_file_lines                                           *)
(***************************************************************************)
\* ViewFileTool.MAX_FILE_SIZE_BYTES
MaxFileSizeBytes == 100000

\* max_lines_per_request of view_file_lines
MaxLinesPerRequest == 100

\* the text read from a file: its characters, then a stand-in for the run
\* of fill further bytes
ContentTokens(c) ==
    c.text \o (IF c.fill > 0 THEN <<"<more bytes: ">> \o Dec(c.fill) \o <<">">> ELSE <<>>)

\* s.split("\n")
RECURSIVE SplitNl(_)
SplitNl(s) ==
    LET I == {i \in 1..Len(s) : s[i] = "\n"}
    IN IF I = {} THEN <<s>>
       ELSE <<SubSeq(s, 1, Min(I) - 1)>> \o SplitNl(SubSeq(s, Min(I) + 1, Len(s)))

\* file.readlines(): the lines, each with its newline
RECURSIVE ReadLines(_)
ReadLines(s) ==
    LET I == {i \in 1..Len(s) : s[i] = "\n"}
    IN IF s = <<>> THEN <<>>
       ELSE IF I = {} THEN <<s>>
       ELSE <<SubSeq(s, 1, Min(I))>> \o ReadLines(SubSeq(s, Min(I) + 1, Len(s)))

\* line.rstrip("\n")
RStripNl(line) ==
    LET I == {i \in 1..Len(line) : line[i] # "\n"}
    IN IF I = {} THEN <<>> ELSE SubSeq(line, 1, Max(I))

\* seq[lo:hi] for 0 <= lo
Slice(seq, lo, hi) == SubSeq(seq, lo + 1, Min({hi, Len(seq)}))

\* view_file refusing a file of exactly MAX_FILE_SIZE_BYTES bytes
ViewFileSizedStrict(nf, sz, f) ==
    IF sz.raised THEN [raised |-> TRUE, exc |-> sz.exc, io |-> <<"getsize">>]
    ELSE IF sz.val >= MaxFileSizeBytes
    THEN [raised |-> FALSE, io |-> <<"getsize">>,
          val |-> << <<ErrorHead, "File is too large (">> \o Dec(sz.val)
                       \o <<" bytes > ">> \o Dec(MaxFileSizeBytes)
                       \o <<" bytes). Use view_file_lines for large files.">> >>]
    ELSE IF f.raised THEN [raised |-> TRUE, exc |-> f.exc, io |-> <<"getsize", "open">>]
    ELSE [raised |-> FALSE, io |-> <<"getsize", "open", "read">>,
          val |-> << <<"File: ">> \o nf,
                     <<"Size: ">> \o Dec(sz.val) \o <<" bytes">>,
                     <<>> >>
                  \o SplitNl(<<"Content:", "\n">> \o ContentTokens(f.val))]

\* the try block of view_file, given what os.path.getsize and open do
ViewFileSized(nf, sz, f) ==
    IF sz.raised THEN [raised |-> TRUE, exc |-> sz.exc, io |-> <<"getsize">>]
    ELSE IF sz.val > MaxFileSizeBytes
    THEN [raised |-> FALSE, io |-> <<"getsize">>,
          val |-> << <<ErrorHead, "File is too large (">> \o Dec(sz.val)
                       \o <<" bytes > ">> \o Dec(MaxFileSizeBytes)
                       \o <<" bytes). Use view_file_lines for large files.">> >>]
    ELSE IF f.raised THEN [raised |-> TRUE, exc |-> f.exc, io |-> <<"getsize", "open">>]
    ELSE [raised |-> FALSE, io |-> <<"getsize", "open", "read">>,
          val |-> << <<"File: ">> \o nf,
                     <<"Size: ">> \o Dec(sz.val) \o <<" bytes">>,
                     <<>> >>
                  \o SplitNl(<<"Content:", "\n">> \o ContentTokens(f.val))]

ViewFileBody(nf) == ViewFileSized(nf, GetSize(nf), OpenRead(nf))

\* view_file without its except clause: the exception leaves the tool
ViewFileNoExcept(r, nf, io) ==
    IF r.raised THEN ToolRaise(r.exc, io \o r.io) ELSE ToolReturn(r.val, io \o r.io)

\* the except clause of view_file
ViewFileExcept(r, nf, io) ==
    IF r.raised
    THEN ToolReturn(<< <<ErrorHead, "Failed to read file '">> \o nf \o <<"': ", r.exc>> >>,
                    io \o r.io)
    ELSE ToolReturn(r.val, io \o r.io)

ViewFileAfter(pre) ==
    IF ~pre.ok THEN pre.res
    ELSE ViewFileExcept(ViewFileBody(pre.path), pre.path, pre.res.io)

ViewFileRun(raw) == ViewFileAfter(FilePreamble(raw))

\* the formatting of the selected lines
NumberedLines(startLine, selectedLines) ==
    [k \in 1..Len(selectedLines) |->
        Dec4(startLine + k - 1) \o <<": ">> \o RStripNl(selectedLines[k])]

\* the try block of view_file_lines once the lines are read
ViewFileLinesSelect(nf, startLine, lines, totalLines, actualEndLine) ==
    IF startLine > totalLines
    THEN << <<ErrorHead, "Start line ">> \o Dec(startLine)
              \o <<" exceeds file length (">> \o Dec(totalLines) \o <<" lines)">> >>
    ELSE << <<"File: ">> \o nf,
            <<"Lines ">> \o Dec(startLine) \o <<"-">> \o Dec(actualEndLine)
                \o <<" of ">> \o Dec(totalLines) \o <<":">>,
            <<>> >>
         \o NumberedLines(startLine, Slice(lines, startLine - 1, actualEndLine))
         \o << <<>> >>

\* view_file_lines without the adjustment of end_line to the file length
ViewFileLinesReadNoClamp(nf, startLine, endLine, lines) ==
    ViewFileLinesSelect(nf, startLine, lines, Len(lines), endLine)

ViewFileLinesRead(nf, startLine, endLine, lines) ==
    ViewFileLinesSelect(nf, startLine, lines, Len(lines), Min({endLine, Len(lines)}))

\* the try block of view_file_lines, given what open does
ViewFileLinesOpened(nf, startLine, endLine, f) ==
    IF f.raised THEN [raised |-> TRUE, exc |-> f.exc, io |-> <<"open">>]
    ELSE [raised |-> FALSE, io |-> <<"open", "read">>,
          val |-> ViewFileLinesRead(nf, startLine, endLine,
                                    ReadLines(ContentTokens(f.val)))]

ViewFileLinesBody(nf, startLine, endLine) ==
    ViewFileLinesOpened(nf, startLine, endLine, OpenRead(nf))

\* the except clause of view_file_lines
ViewFileLinesExcept(r, nf, io) ==
    IF r.raised
    THEN ToolReturn(<< <<ErrorHead, "Failed to read file '">> \o nf \o <<"': ", r.exc>> >>,
                    io \o r.io)
    ELSE ToolReturn(r.val, io \o r.io)

\* the checks of view_file_lines on the line numbers, ahead of the try
\* block: the error segment, or the empty segment when they pass
LineRangeError(startLine, endLine) ==
    IF startLine < 1
    THEN <<ErrorHead, "Start line must be >= 1, got ">> \o Dec(startLine)
    ELSE IF endLine < startLine
    THEN <<ErrorHead, "End line (">> \o Dec(endLine) \o <<") must be >= start line (">>
             \o Dec(startLine) \o <<")">>
    ELSE IF (endLine - startLine + 1) > MaxLinesPerRequest
    THEN <<ErrorHead, "Too many lines requested (">> \o Dec(endLine - startLine + 1)
             \o <<"). Maximum ">> \o Dec(MaxLinesPerRequest) \o <<" lines per request.">>
    ELSE <<>>

\* view_file_lines validating the line numbers ahead of the path
ViewFileLinesRangeFirst(pre, startLine, endLine, rangeError) ==
    IF rangeError # <<>> THEN ToolReturn(<<rangeError>>, pre.res.io)
    ELSE IF ~pre.ok THEN pre.res
    ELSE ViewFileLinesExcept(ViewFileLinesBody(pre.path, startLine, endLine), pre.path,
                             pre.res.io)

ViewFileLinesChecked(pre, startLine, endLine, rangeError) ==
    IF ~pre.ok THEN pre.res
    ELSE IF rangeError # <<>> THEN ToolReturn(<<rangeError>>, pre.res.io)
    ELSE ViewFileLinesExcept(ViewFileLinesBody(pre.path, startLine, endLine), pre.path,
                             pre.res.io)

ViewFileLinesRun(raw, startLine, endLine) ==
    ViewFileLinesChecked(FilePreamble(raw), startLine, endLine,
                         LineRangeError(startLine, endLine))

(***************************************************************************)
(* The path clean-up and normalization as one step                         *)
(***************************************************************************)
SanitizePath(raw) == NormalizePath(CleanPath(raw))

(***************************************************************************)
(* Filesystems of the model                                                *)
(***************************************************************************)
\* the longest chain of names below "/" in a directory tree
MaxDepth == 3
\* the longest file text, in characters
MaxTextLen == 3
\* the longest path text given to the clean-up
MaxPathLen == 3
\* the most regular files, and the most other entries, in the listed directory
MaxFiles == 51
MaxOthers == 1
MaxDocs == 2

N_a == <<"a">>
N_b == <<"b">>
N_d == <<"d">>
N_f == <<"f">>
N_m == <<"m">>

\* the text of the absolute path with the names comps
PathText(comps) == <<Sep>> \o JoinSep(comps)

\* A directory tree: a chain of directories spine below "/", its last name
\* a node of kind leaf, and at most one more entry beside one of its names.
SpineNames == {N_a, S_git}
ExtraNames == {N_a, N_b, S_git}
Spines == UNION {[1..l -> SpineNames] : l \in 0..MaxDepth}
LeafNodes ==
    {DirNode(<<>>, FALSE), DirNode(<<>>, TRUE), FileNode(<<"x", "\n">>, 0, FALSE),
     FileNode(<<"x", "\n">>, 0, TRUE), DanglingNode}
ExtraNodes == {DirNode(<<>>, FALSE), FileNode(<<"x">>, 0, FALSE), DanglingNode}
NoExtra == [at |-> 0 - 1, name |-> <<>>, node |-> DanglingNode]
Extras(sp) ==
    {NoExtra} \cup
    {e \in [at : 0..(Len(sp) - 1), name : ExtraNames, node : ExtraNodes] :
        e.name # sp[e.at + 1]}

TreeFs(sp, leaf, ex) ==
    LET chain == {SubSeq(sp, 1, k) : k \in 0..Len(sp)}
        extraPath == SubSeq(sp, 1, ex.at) \o <<ex.name>>
        D == chain \cup (IF ex.at >= 0 THEN {extraPath} ELSE {})
    IN [c \in D |->
          IF ex.at >= 0 /\ c = extraPath THEN ex.node
          ELSE IF Len(c) = Len(sp) /\ Len(sp) > 0 THEN leaf
          ELSE DirNode((IF Len(c) < Len(sp) THEN <<sp[Len(c) + 1]>> ELSE <<>>)
                          \o (IF ex.at = Len(c) THEN <<ex.name>> ELSE <<>>), FALSE)]

\* A directory with text files: the working directory /a holds the file f
\* (text, then fill more bytes, readable or not) and the directory d.
TextChars == {"x", "\n"}
Texts == UNION {[1..l -> TextChars] : l \in 0..MaxTextLen}
Fills == {0, MaxFileSizeBytes - 2, MaxFileSizeBytes - 1, MaxFileSizeBytes}
FileFs(text, fill, denied) ==
    (<<>> :> DirNode(<<N_a>>, FALSE))
    @@ (<<N_a>> :> DirNode(<<N_f, N_d>>, FALSE))
    @@ (<<N_a, N_f>> :> FileNode(text, fill, denied))
    @@ (<<N_a, N_d>> :> DirNode(<<>>, FALSE))

\* A directory with many files: the working directory /a holds nf regular
\* files 00, 01, ... (two octal digits) and, after pos[j] of them, the entry
\* d<j> of kind other, which is no regular file.  One such entry stands at
\* any place; several stand at the start, around the limit of list_files
\* and at the end.
OctalName(i) == <<Digit(i \div 8), Digit(i % 8)>>
OtherName(j) == <<"d", Digit(j)>>
KeyPositions(nf) ==
    {0, 1, MaxFilesShown - 1, MaxFilesShown, MaxFilesShown + 1, nf} \cap 0..nf
OtherPositions(nf) ==
    {<<>>} \cup (IF MaxOthers >= 1 THEN {<<i>> : i \in 0..nf} ELSE {})
    \cup UNION {{pos \in [1..k -> KeyPositions(nf)] :
                    \A j \in 1..(k - 1) : pos[j] <= pos[j + 1]} : k \in 2..MaxOthers}
\* the enumeration: the files in order, each other entry after pos[j] files
RECURSIVE Interleave(_, _, _, _)
Interleave(nf, pos, i, j) ==
    IF j <= Len(pos) /\ pos[j] <= i
    THEN <<OtherName(j)>> \o Interleave(nf, pos, i, j + 1)
    ELSE IF i < nf THEN <<OctalName(i)>> \o Interleave(nf, pos, i + 1, j)
    ELSE <<>>
BigFs(nf, pos, other) ==
    LET files == {OctalName(i) : i \in 0..(nf - 1)}
        others == {OtherName(j) : j \in 1..Len(pos)}
    IN [c \in {<<>>, <<N_a>>} \cup {<<N_a, n>> : n \in files \cup others} |->
          IF c = <<>> THEN DirNode(<<N_a>>, FALSE)
          ELSE IF c = <<N_a>> THEN DirNode(Interleave(nf, pos, 0, 1), FALSE)
          ELSE IF c[2] \in files THEN FileNode(<<"x">>, 0, FALSE)
          ELSE other]

(***************************************************************************)
(* The clone-and-vectorize pipeline (main).  The repository path holds     *)
(* nothing, a directory that is no git repository, or a git repository     *)
(* with a number of Python documents; the vector database directory exists *)
(* or not, and the index vtm_faiss under it is absent or was built from a  *)
(* number of documents.                                                    *)
(***************************************************************************)
RepoUrl == "https://github.com/redpointsec/vtm.git"
RepoPath == "./repo"
VectorDbPath == "./vector_databases"
FaissDbPath == <<VectorDbPath, "/", "vtm_faiss">>

AbsentRepo == [kind |-> "absent", docs |-> 0]
PlainDir == [kind |-> "dir", docs |-> 0]
GitRepo(docs) == [kind |-> "git", docs |-> docs]
Vdb(parent, built, docs) == [parent |-> parent, built |-> built, docs |-> docs]
NoRun == [force |-> FALSE, end |-> "none", out |-> <<>>, ops |-> <<>>]

NoPipeline ==
    /\ repo = AbsentRepo
    /\ vdb = Vdb(FALSE, FALSE, 0)
    /\ remote = 0
    /\ run = NoRun

\* Path(vector_db_path).mkdir(parents=True, exist_ok=True)
SetupVectorDbDirectory(v) ==
    [vdb |-> [v EXCEPT !.parent = TRUE],
     out |-> << <<"Vector database directory: ", VectorDbPath>> >>]

\* clone_repository from the test for a git repository on; r is the
\* repository path after the removal of forced mode, cloneOk whether
\* git.Repo.clone_from succeeds (it cannot into a directory that is in the way)
CloneRepositoryFrom(r, docs, cloneOk, out, ops) ==
    IF r.kind = "git"
    THEN [repo |-> r, ret |-> TRUE, ops |-> ops,
          out |-> out \o << <<"Directory already contains a git repository.">> >>]
    ELSE IF cloneOk /\ r.kind = "absent"
    THEN [repo |-> GitRepo(docs), ret |-> TRUE, ops |-> ops \o <<"clone_from">>,
          out |-> out \o << <<"Repository cloned into: ", RepoPath>> >>]
    ELSE [repo |-> r, ret |-> FALSE, ops |-> ops \o <<"clone_from">>,
          out |-> out \o << <<"An error occurred while cloning the repository: ", "GitCommandError">> >>]

CloneRepository(r, docs, force, cloneOk) ==
    IF force /\ r.kind # "absent"
    THEN CloneRepositoryFrom(AbsentRepo, docs, cloneOk,
             << <<"Force flag set. Removing existing repository at: ", RepoPath>> >>,
             <<"rmtree repo">>)
    ELSE CloneRepositoryFrom(r, docs, cloneOk, <<>>, <<>>)

\* vectorize_repository from the test for an existing index on; embedOk is
\* whether the embedding service answers FAISS.from_documents
VectorizeRepositoryFrom(r, v, embedOk, out, ops) ==
    IF v.built
    THEN [vdb |-> v, raised |-> FALSE, ops |-> ops,
          out |-> out \o << <<"Vector database already exists. Skipping vectorization.">> >>]
    ELSE IF r.docs = 0
    THEN [vdb |-> v, raised |-> FALSE, ops |-> ops \o <<"load">>,
          out |-> out \o << <<"Starting vectorization process...">>,
                            <<"No documents found to vectorize.">> >>]
    ELSE IF ~embedOk
    THEN [vdb |-> v, raised |-> TRUE, ops |-> ops \o <<"load", "from_documents">>,
          out |-> out \o << <<"Starting vectorization process...">>,
                            <<"Creating vector database with ">> \o Dec(r.docs)
                                \o <<" text chunks...">> >>]
    ELSE [vdb |-> Vdb(TRUE, TRUE, r.docs), raised |-> FALSE,
          ops |-> ops \o <<"load", "from_documents", "save_local">>,
          out |-> out \o << <<"Starting vectorization process...">>,
                            <<"Creating vector database with ">> \o Dec(r.docs)
                                \o <<" text chunks...">>,
                            <<"Vector database saved to: ">> \o FaissDbPath >>]

VectorizeRepository(r, v, force, embedOk) ==
    IF force /\ v.built
    THEN VectorizeRepositoryFrom(r, Vdb(TRUE, FALSE, 0), embedOk,
             << <<"Force flag set. Removing existing vector database at: ">> \o FaissDbPath >>,
             <<"rmtree faiss">>)
    ELSE VectorizeRepositoryFrom(r, v, embedOk, <<>>, <<>>)

MainHeader(force) ==
    << <<"=== LLM Repository Analysis Tool ===">>,
       <<"Repository URL: ", RepoUrl>>,
       <<"Repository Path: ", RepoPath>>,
       <<"Vector DB Path: ", VectorDbPath>>,
       <<"Force Mode: ", IF force THEN "True" ELSE "False">>,
       <<"========================================">> >>

\* main after clone_repository returned c
MainVectorize(c, vz, force, out) ==
    [repo |-> c.repo, vdb |-> vz.vdb,
     run |-> [force |-> force,
              end |-> IF vz.raised THEN "raised" ELSE "completed",
              ops |-> c.ops \o vz.ops,
              out |-> out \o c.out \o vz.out \o
                      (IF vz.raised THEN <<>>
                       ELSE << <<"Process completed successfully!">> >>)]]

MainCloned(c, v, force, embedOk, out) ==
    IF ~c.ret
    THEN [repo |-> c.repo, vdb |-> v,
          run |-> [force |-> force, end |-> "exited", ops |-> c.ops,
                   out |-> out \o c.out \o << <<"Failed to clone repository. Exiting.">> >>]]
    ELSE MainVectorize(c, VectorizeRepository(c.repo, v, force, embedOk), force, out)

MainSetUp(r, su, docs, force, cloneOk, embedOk) ==
    MainCloned(CloneRepository(r, docs, force, cloneOk), su.vdb, force, embedOk,
               MainHeader(force) \o su.out)

MainRun(r, v, docs, force, cloneOk, embedOk) ==
    MainSetUp(r, SetupVectorDbDirectory(v), docs, force, cloneOk, embedOk)

(***************************************************************************)
(* The tools as actions                                                    *)
(***************************************************************************)
NoCall == [tool |-> "none", raw |-> <<>>, startLine |-> 0, endLine |-> 0]
NoResult == ToolReturn(<<>>, <<>>)
NoSanIn == [p |-> <<>>, pre |-> <<>>, suf |-> <<>>]
NoSanOut == [done |-> FALSE, raised |-> FALSE, val |-> <<>>]

\* the path texts a tool is called with: every entry of the filesystem, a
\* missing path, a relative path, a fenced path
FixedInputs ==
    {PathText(<<N_m>>), N_b,
     Fence \o <<"\n">> \o PathText(<<N_a>>) \o <<"\n">> \o Fence}
RawInputs == {PathText(c) : c \in DOMAIN fs} \cup FixedInputs

Idle == call = NoCall

ListDirectories(inputs) ==
    /\ Idle
    /\ \E raw \in inputs :
        /\ call' = [tool |-> "list_directories", raw |-> raw, startLine |-> 0, endLine |-> 0]
        /\ result' = ListDirectoriesRun(raw)
    /\ granted' = {}
    /\ UNCHANGED <<fs, sanIn, sanOut, PipeVars>>

ListFiles(inputs) ==
    /\ Idle
    /\ \E raw \in inputs :
        /\ call' = [tool |-> "list_files", raw |-> raw, startLine |-> 0, endLine |-> 0]
        /\ result' = ListFilesRun(raw)
    /\ granted' = {}
    /\ UNCHANGED <<fs, sanIn, sanOut, PipeVars>>

ShowStructure(inputs) ==
    /\ Idle
    /\ \E raw \in inputs :
        /\ call' = [tool |-> "show_directory_structure", raw |-> raw,
                    startLine |-> 0, endLine |-> 0]
        /\ result' = ShowStructureRun(raw)
    /\ granted' = {}
    /\ UNCHANGED <<fs, sanIn, sanOut, PipeVars>>

\* view_file as it would be if it opened the file for writing: the file it
\* was asked for is left empty
ViewFileTouching(inputs) ==
    /\ Idle
    /\ \E raw \in inputs :
        /\ call' = [tool |-> "view_file", raw |-> raw, startLine |-> 0, endLine |-> 0]
        /\ result' = ViewFileRun(raw)
        /\ LET np == NormalizePath(CleanPath(raw))
           IN fs' = IF ~np.raised /\ IsFile(np.val)
                    THEN [fs EXCEPT ![Comps(np.val)].text = <<>>]
                    ELSE fs
    /\ granted' = {}
    /\ UNCHANGED <<sanIn, sanOut, PipeVars>>

ViewFile(inputs) ==
    /\ Idle
    /\ \E raw \in inputs :
        /\ call' = [tool |-> "view_file", raw |-> raw, startLine |-> 0, endLine |-> 0]
        /\ result' = ViewFileRun(raw)
    /\ granted' = {}
    /\ UNCHANGED <<fs, sanIn, sanOut, PipeVars>>

ViewFileLines(inputs, starts, ends) ==
    /\ Idle
    /\ \E raw \in inputs, startLine \in starts, endLine \in ends :
        /\ call' = [tool |-> "view_file_lines", raw |-> raw,
                    startLine |-> startLine, endLine |-> endLine]
        /\ result' = ViewFileLinesRun(raw, startLine, endLine)
    /\ granted' = {}
    /\ UNCHANGED <<fs, sanIn, sanOut, PipeVars>>

\* the agent calls show_directory_structure again with the same argument
ShowStructureAgain ==
    /\ call.tool = "show_directory_structure"
    /\ result' = ShowStructureRun(call.raw)
    /\ granted' = {}
    /\ UNCHANGED <<fs, call, sanIn, sanOut, PipeVars>>

\* the agent has read the result; the next call can be made
Finish ==
    /\ ~Idle
    /\ call' = NoCall
    /\ result' = NoResult
    /\ granted' = {}
    /\ UNCHANGED <<fs, sanIn, sanOut, PipeVars>>

\* The system enumerates a directory in another order (two neighbouring
\* entries change places); nothing is added, removed or modified.
Reenumerate ==
    \E d \in DOMAIN fs :
        \E i \in 1..(Len(fs[d].entries) - 1) :
            /\ fs' = [fs EXCEPT ![d].entries =
                         [k \in 1..Len(@) |->
                             IF k = i THEN @[i + 1] ELSE IF k = i + 1 THEN @[i] ELSE @[k]]]
            /\ UNCHANGED <<call, result, sanIn, sanOut, granted, PipeVars>>

\* the clean-up and normalization applied to a wrapped path text
SanitizeResult(n) ==
    [done |-> TRUE, raised |-> n.raised, val |-> IF n.raised THEN <<>> ELSE n.val]

Sanitize ==
    /\ ~sanOut.done
    /\ sanOut' = SanitizeResult(SanitizePath(sanIn.pre \o sanIn.p \o sanIn.suf))
    /\ UNCHANGED <<fs, call, result, sanIn, granted, PipeVars>>

(***************************************************************************)
(* Specifications                                                          *)
(***************************************************************************)
\* the five tools over the directory trees
Init ==
    /\ \E sp \in Spines :
         \E leaf \in (IF sp = <<>> THEN {DirNode(<<>>, FALSE)} ELSE LeafNodes) :
           \E ex \in Extras(sp) : fs = TreeFs(sp, leaf, ex)
    /\ call = NoCall
    /\ result = NoResult
    /\ sanIn = NoSanIn
    /\ sanOut = NoSanOut
    /\ granted = {}
    /\ NoPipeline

\* the line numbers view_file_lines is called with over the directory trees
TreeStartLines == {0, 1, 3}
TreeEndLines == {0, 2, 150}

Next ==
    \/ ListDirectories(RawInputs)
    \/ ListFiles(RawInputs)
    \/ ShowStructure(RawInputs)
    \/ ViewFile(RawInputs)
    \/ ViewFileLines(RawInputs, TreeStartLines, TreeEndLines)
    \/ ShowStructureAgain
    \/ Finish
    \/ Reenumerate

Spec == Init /\ [][Next]_vars

\* the two file tools over the text files
FileInputs ==
    {PathText(<<N_a, N_f>>), N_f, PathText(<<N_a, N_d>>), PathText(<<N_a, N_m>>),
     Fence \o <<"\n">> \o PathText(<<N_a, N_f>>) \o <<"\n">> \o Fence}
StartLines == {0 - 1, 0, 1, 2, 3, 5}
EndLines == {0 - 1, 0, 1, 2, 3, 5, 100, 101, 150}

InitFile ==
    /\ \E text \in Texts, fill \in Fills, denied \in BOOLEAN :
         fs = FileFs(text, fill, denied)
    /\ call = NoCall
    /\ result = NoResult
    /\ sanIn = NoSanIn
    /\ sanOut = NoSanOut
    /\ granted = {}
    /\ NoPipeline

NextFile ==
    \/ ViewFile(FileInputs)
    \/ ViewFileLines(FileInputs, StartLines, EndLines)
    \/ Finish

SpecFile == InitFile /\ [][NextFile]_vars

\* list_files over the directories with many files
ListInputs == {PathText(<<N_a>>), Dot}

InitList ==
    /\ \E nf \in 0..MaxFiles :
         \E pos \in OtherPositions(nf), other \in {DirNode(<<>>, FALSE), DanglingNode} :
           fs = BigFs(nf, pos, other)
    /\ call = NoCall
    /\ result = NoResult
    /\ sanIn = NoSanIn
    /\ sanOut = NoSanOut
    /\ granted = {}
    /\ NoPipeline

NextList ==
    \/ ListFiles(ListInputs)
    \/ Finish

SpecList == InitList /\ [][NextList]_vars

\* the path clean-up over wrapped path texts
PathChars == {"/", "a", "s", "h", ".", "~"}
PathTexts == UNION {[1..l -> PathChars] : l \in 0..MaxPathLen}
Prefixes ==
    {<<>>, Fence, Fence \o <<"\n">>, Fence \o <<"s", "h", "\n">>,
     Fence \o <<"p", "y", "t", "h", "o", "n", "\n">>,
     Fence \o <<"y", "a", "m", "l", "\n">>,
     <<Backtick>>,
     <<" ", "\n">> \o Fence \o <<"b", "a", "s", "h", " ", "\n">>}
Suffixes ==
    {<<>>, Fence, <<"\n">> \o Fence, <<Backtick>>, <<"\n">> \o Fence \o <<" ", "\n">>}

InitSan ==
    /\ fs = FileFs(<<>>, 0, FALSE)
    /\ call = NoCall
    /\ result = NoResult
    /\ sanIn \in [p : PathTexts, pre : Prefixes, suf : Suffixes]
    /\ sanOut = NoSanOut
    /\ granted = {}
    /\ NoPipeline

NextSan == Sanitize

SpecSan == InitSan /\ [][NextSan]_vars

\* show_directory_structure over trees with unreadable directories: /a
\* holds b (a directory with a file, a file, or nothing), the directory d
\* (readable or not, with no entry, a file, or a directory and a file) and
\* f (a file, nothing, or an unreadable directory with a file).
DeniedFs(bKind, dDenied, dEntries, fKind, rootDenied) ==
    (<<>> :> DirNode(<<N_a>>, FALSE))
    @@ (<<N_a>> :> DirNode((IF bKind = "none" THEN <<>> ELSE <<N_b>>) \o <<N_d>>
                              \o (IF fKind = "none" THEN <<>> ELSE <<N_f>>), rootDenied))
    @@ (<<N_a, N_d>> :> DirNode(dEntries, dDenied))
    @@ [c \in {<<N_a, N_d, dEntries[i]>> : i \in 1..Len(dEntries)} |->
           IF c[3] = N_f THEN FileNode(<<"x">>, 0, FALSE) ELSE DirNode(<<>>, TRUE)]
    @@ [c \in (IF bKind = "none" THEN {} ELSE {<<N_a, N_b>>}) |->
           IF bKind = "dir" THEN DirNode(<<N_f>>, FALSE) ELSE FileNode(<<"x">>, 0, FALSE)]
    @@ [c \in (IF bKind = "dir" THEN {<<N_a, N_b, N_f>>} ELSE {}) |->
           FileNode(<<"x">>, 0, FALSE)]
    @@ [c \in (IF fKind = "none" THEN {} ELSE {<<N_a, N_f>>}) |->
           IF fKind = "dir" THEN DirNode(<<N_f>>, TRUE) ELSE FileNode(<<"x">>, 0, FALSE)]
    @@ [c \in (IF fKind = "dir" THEN {<<N_a, N_f, N_f>>} ELSE {}) |->
           FileNode(<<"x">>, 0, FALSE)]

\* the owner makes an unreadable directory readable; nothing else changes,
\* and the result at hand is the one produced before
Grant ==
    \E d \in DOMAIN fs :
        /\ fs[d].kind = "dir" /\ fs[d].denied
        /\ fs' = [fs EXCEPT ![d].denied = FALSE]
        /\ granted' = granted \cup {d}
        /\ UNCHANGED <<call, result, sanIn, sanOut, PipeVars>>

TreeInputs == {PathText(<<>>), PathText(<<N_a>>), PathText(<<N_a, N_d>>)}

InitTree ==
    /\ \E bKind \in {"dir", "file", "none"}, dDenied \in BOOLEAN,
          dEntries \in {<<>>, <<N_f>>, <<N_b, N_f>>}, fKind \in {"dir", "file", "none"},
          rootDenied \in BOOLEAN :
         fs = DeniedFs(bKind, dDenied, dEntries, fKind, rootDenied)
    /\ call = NoCall
    /\ result = NoResult
    /\ sanIn = NoSanIn
    /\ sanOut = NoSanOut
    /\ granted = {}
    /\ NoPipeline

NextTree ==
    \/ ShowStructure(TreeInputs)
    \/ ShowStructureAgain
    \/ Grant
    \/ Finish

SpecTree == InitTree /\ [][NextTree]_vars

\* one run of main, with or without --force
Main(force) ==
    \E cloneOk \in BOOLEAN, embedOk \in BOOLEAN :
        LET m == MainRun(repo, vdb, remote, force, cloneOk, embedOk)
        IN /\ repo' = m.repo
           /\ vdb' = m.vdb
           /\ run' = m.run
           /\ UNCHANGED <<fs, call, result, sanIn, sanOut, granted, remote>>

\* the pipeline over the states of the two paths and the repositories cloned
InitPipe ==
    /\ fs = FileFs(<<>>, 0, FALSE)
    /\ call = NoCall
    /\ result = NoResult
    /\ sanIn = NoSanIn
    /\ sanOut = NoSanOut
    /\ granted = {}
    /\ repo \in {AbsentRepo, PlainDir} \cup {GitRepo(d) : d \in 0..MaxDocs}
    /\ vdb \in {Vdb(FALSE, FALSE, 0), Vdb(TRUE, FALSE, 0)}
                 \cup {Vdb(TRUE, TRUE, d) : d \in 1..MaxDocs}
    /\ remote \in 0..MaxDocs
    /\ run = NoRun

NextPipe == \E force \in BOOLEAN : Main(force)

SpecPipe == InitPipe /\ [][NextPipe]_vars

(***************************************************************************)
(* Properties                                                              *)
(***************************************************************************)
Has(seq, x) == \E i \in 1..Len(seq) : seq[i] = x
DirTools == {"list_directories", "list_files", "show_directory_structure"}
Enumerated(r) == Has(r.io, "walk") \/ Has(r.io, "listdir")

\* C1: whatever tool was called, with whatever path text and line numbers,
\* on whatever filesystem (missing paths, paths of the wrong type, unreadable
\* files and directories), the call has returned a string: no exception of
\* a validation or I/O step left the tool.
C1_NoExceptionEscapes ==
    ~Idle => (~result.raised /\ result.out # <<>>)

\* an open() that failed inside view_file, and the call returned an error string
C1_Witness ==
    /\ call.tool = "view_file"
    /\ Has(result.io, "open") /\ ~Has(result.io, "read")
    /\ IsError(result)

\* the normalized path of the current call, and the node there
CallPath == NormalizePath(CleanPath(call.raw))
CallNode == IF CallPath.raised THEN MissingNode ELSE NodeAt(CallPath.val)

\* the errors of the five checks of view_file_lines, and the first check that fails
C2_Messages ==
    <<"File does not exist: ", "Path exists but is not a file: ",
      "Start line must be >= 1, got ", "End line (", "Too many lines requested (">>
C2_FirstFailing(node) ==
    IF node.kind \notin {"dir", "file"} THEN 1
    ELSE IF node.kind # "file" THEN 2
    ELSE IF call.startLine < 1 THEN 3
    ELSE IF call.endLine < call.startLine THEN 4
    ELSE IF call.endLine - call.startLine + 1 > 100 THEN 5
    ELSE 0
C2_Decided(ff) ==
    /\ \A i, j \in 1..5 : i # j => C2_Messages[i] # C2_Messages[j]
    /\ ff # 0 =>
          /\ IsError(result)
          /\ result.out[1][2] = C2_Messages[ff]
          /\ ~Has(result.io, "open") /\ ~Has(result.io, "read")
    /\ ff = 0 =>
          /\ Has(result.io, "open")
          /\ \A i \in 1..5 : ~(IsError(result) /\ result.out[1][2] = C2_Messages[i])
C2_DecidedAt(np) == ~np.raised => C2_Decided(C2_FirstFailing(NodeAt(np.val)))

\* C2: view_file_lines checks, in this order, that the path exists, that it
\* is a regular file, that start >= 1, that end >= start and that
\* end - start + 1 <= 100; the error returned is that of the first check
\* that fails, the five errors are different messages, and the file is
\* neither opened nor read when a check fails.
C2_ValidationOrder ==
    call.tool = "view_file_lines" => C2_DecidedAt(CallPath)

\* a missing path asked for from line 0 on: the does-not-exist error
C2_Witness ==
    /\ call.tool = "view_file_lines"
    /\ call.startLine = 0
    /\ ~CallPath.raised /\ CallNode.kind = "missing"
    /\ IsError(result) /\ result.out[1][2] = "File does not exist: "

\* the text of the file of the current call; for a text, its newline
\* positions, its number of lines and its k-th line without the newline
CallText == ContentTokens([text |-> CallNode.text, fill |-> CallNode.fill])
C3_Newlines(text) == {i \in 1..Len(text) : text[i] = "\n"}
C3_TotalOf(text) ==
    Cardinality(C3_Newlines(text))
        + (IF text # <<>> /\ text[Len(text)] # "\n" THEN 1 ELSE 0)
C3_LineStart(text, k) ==
    IF k = 1 THEN 1
    ELSE 1 + CHOOSE i \in C3_Newlines(text) :
                 Cardinality({j \in C3_Newlines(text) : j < i}) = k - 2
C3_LineEnd(text, k) ==
    IF k > Cardinality(C3_Newlines(text)) THEN Len(text)
    ELSE (CHOOSE i \in C3_Newlines(text) :
              Cardinality({j \in C3_Newlines(text) : j < i}) = k - 1) - 1
C3_Line(text, k) == SubSeq(text, C3_LineStart(text, k), C3_LineEnd(text, k))
C3_Total == C3_TotalOf(CallText)
C3_ValidFor(node) ==
    /\ node.kind = "file" /\ ~node.denied
    /\ call.startLine >= 1 /\ call.endLine >= call.startLine
    /\ call.endLine - call.startLine + 1 <= 100
C3_Valid ==
    /\ call.tool = "view_file_lines"
    /\ ~CallPath.raised
    /\ C3_ValidFor(CallNode)
C3_Served(path, text, total, last) ==
    IF call.startLine > total
    THEN /\ IsError(result)
         /\ result.out[1] = <<ErrorHead, "Start line ">> \o Dec(call.startLine)
                               \o <<" exceeds file length (">> \o Dec(total)
                               \o <<" lines)">>
    ELSE /\ ~IsError(result)
         /\ Len(result.out) = 3 + (last - call.startLine + 1) + 1
         /\ result.out[1] = <<"File: ">> \o path
         /\ result.out[2] = <<"Lines ">> \o Dec(call.startLine) \o <<"-">> \o Dec(last)
                               \o <<" of ">> \o Dec(total) \o <<":">>
         /\ result.out[3] = <<>>
         /\ \A k \in call.startLine..last :
                result.out[3 + k - call.startLine + 1] =
                    Dec4(k) \o <<": ">> \o C3_Line(text, k)
         /\ result.out[Len(result.out)] = <<>>
C3_ServedText(path, text, total) ==
    C3_Served(path, text, total, Min({call.endLine, total}))
C3_ServedNode(path, node) ==
    C3_ValidFor(node) =>
        C3_ServedText(path, ContentTokens([text |-> node.text, fill |-> node.fill]),
                      C3_TotalOf(ContentTokens([text |-> node.text, fill |-> node.fill])))
C3_ServedPath(np) ==
    ~np.raised => C3_ServedNode(np.val, NodeAt(np.val))

\* C3: for a readable file of T lines and a request that passed the
\* validation, view_file_lines returns an error naming T when start > T,
\* and otherwise the lines start..min(end, T) in file order, each under its
\* own line number, below a header with the range start-min(end, T) and T.
C3_ClampedRange ==
    call.tool = "view_file_lines" => C3_ServedPath(CallPath)

\* lines 2-5 asked of a file of three lines: lines 2-3 are served
C3_Witness ==
    /\ C3_Valid
    /\ call.startLine = 2 /\ call.endLine = 5 /\ C3_Total = 3
    /\ Len(result.out) = 6

C4_File == call.tool = "view_file" /\ ~CallPath.raised /\ CallNode.kind = "file"
C4_Size == Len(CallNode.text) + CallNode.fill
C4_Boundary ==
    IF C4_Size <= 100000
    THEN /\ ~IsError(result)
         /\ Len(result.out) >= 4
         /\ result.out[1] = <<"File: ">> \o CallPath.val
         /\ result.out[2] = <<"Size: ">> \o Dec(C4_Size) \o <<" bytes">>
         /\ result.out[3] = <<>>
         /\ SubSeq(result.out, 4, Len(result.out)) = SplitNl(<<"Content:", "\n">> \o CallText)
    ELSE /\ IsError(result)
         /\ result.out[1] = <<ErrorHead, "File is too large (">> \o Dec(C4_Size)
                               \o <<" bytes > ">> \o Dec(100000)
                               \o <<" bytes). Use view_file_lines for large files.">>
         /\ ~Has(result.io, "open") /\ ~Has(result.io, "read")

\* C4 as the specification states it: for every existing regular file,
\* view_file returns the content with path and size up to 100,000 bytes
\* and a size-limit error with none of the content from 100,001 bytes on.
C4_AsStated == C4_File => C4_Boundary

\* C4: for every existing regular file that can be opened for reading,
\* view_file returns the content with path and size when the size is at
\* most 100,000 bytes, and from 100,001 bytes on a size-limit error without
\* any of the content; a file of exactly 100,000 bytes is returned.
C4_SizeBoundary == (C4_File /\ ~CallNode.denied) => C4_Boundary

\* a readable file of exactly 100,000 bytes, returned
C4_Witness ==
    /\ C4_File /\ ~CallNode.denied
    /\ C4_Size = 100000
    /\ Has(result.io, "read")

\* the entries of a listed directory that are regular files, and the
\* "File: " lines and truncation notices of the result
C5_RegularFiles(comps, node) ==
    {i \in 1..Len(node.entries) : NodeOf(comps \o <<node.entries[i]>>).kind = "file"}
C5_FileEntries == {k \in 1..Len(result.out) : result.out[k] # <<>> /\ result.out[k][1] = "File: "}
C5_Notices ==
    {k \in 1..Len(result.out) :
        result.out[k] # <<>> /\ result.out[k][1] = "... (more files exist but limited to "}
C5_Capped(regular) ==
    /\ Cardinality(C5_FileEntries) <= 50
    /\ Cardinality(C5_Notices) <= 1
    /\ Cardinality(regular) >= 51 =>
          /\ Len(result.out) = 52
          /\ C5_FileEntries = 2..51
          /\ C5_Notices = {52}
C5_CappedNode(comps, node) ==
    (node.kind = "dir" /\ ~node.denied) => C5_Capped(C5_RegularFiles(comps, node))
C5_CappedAt(np) == ~np.raised => C5_CappedNode(Comps(np.val), NodeAt(np.val))

\* C5: whatever the entries of the listed directory and the order they are
\* enumerated in, the result of list_files has at most 50 "File: " lines
\* and at most one truncation notice; with 51 or more regular files in the
\* directory it has exactly 50 "File: " lines and then one notice.
C5_FileCap ==
    call.tool = "list_files" => C5_CappedAt(CallPath)

C5_Interleaved(regular) ==
    /\ Cardinality(regular) = 51
    /\ \E i \in 1..10 : i \notin regular
    /\ C5_Notices = {52}
C5_InterleavedAt(np) ==
    /\ ~np.raised
    /\ NodeAt(np.val).kind = "dir"
    /\ C5_Interleaved(C5_RegularFiles(Comps(np.val), NodeAt(np.val)))

\* 51 regular files and, among the first of them, an entry that is none
C5_Witness ==
    call.tool = "list_files" /\ C5_InterleavedAt(CallPath)

\* list_directories walked the directory of the current call; the paths of
\* its "Directory: " lines, and the path of its first line
C6_Walked ==
    /\ call.tool = "list_directories"
    /\ Has(result.io, "walk")
C6_Reported ==
    {Comps(Tail(result.out[k])) :
        k \in {i \in 1..Len(result.out) : result.out[i][1] = "Directory: "}}
IsPrefix(a, b) == Len(a) <= Len(b) /\ SubSeq(b, 1, Len(a)) = a
C6_Within(root, reported) ==
    \A c \in reported : IsPrefix(root, c) /\ Len(c) - Len(root) \in 1..2
C6_WithinOf(np) == C6_Within(Comps(np.val), C6_Reported)

\* C6: whatever the path of the root list_directories is called on, the
\* file system root "/" included, every reported directory lies one or two
\* path segments below the root and none three or more.
C6_AsStated ==
    C6_Walked => C6_WithinOf(CallPath)

C7_Names ==
    {S_venv, S_env, S_node_modules, S_git, S_pycache, S_dotvenv, S_vtm_venv,
     S_pytest_cache}
C7_HeaderPath ==
    IF result.out[1][1] = "Root Directory: " THEN Comps(Tail(result.out[1]))
    ELSE Comps(SubSeq(result.out[1], 2, Len(result.out[1]) - 1))

\* C7 as the specification states it: for every root, no excluded name is a
\* component of any path in the output of list_directories.
C7_AsStated ==
    C6_Walked =>
        \A c \in C6_Reported \cup {C7_HeaderPath} :
            \A i \in 1..Len(c) : c[i] \notin C7_Names

C7_Below(root, reported) ==
    \A c \in reported : \A i \in (Len(root) + 1)..Len(c) : c[i] \notin C7_Names
C7_BelowOf(np) == C7_Below(Comps(np.val), C6_Reported)

\* C7: for every directory tree and root, no reported directory has an
\* excluded name (venv, env, node_modules, .git, __pycache__, .venv,
\* vtm_venv, .pytest_cache) among its components below the root: excluded
\* directories are neither reported nor descended into.  The root itself
\* is reported under the path it was given, whatever its components.
C7_NoExcludedBelowRoot ==
    C6_Walked => C7_BelowOf(CallPath)

C7_Listed(root, node) ==
    \E i, j \in 1..Len(node.entries) :
        /\ node.entries[i] = S_git
        /\ NodeOf(root \o <<S_git>>).kind = "dir"
        /\ node.entries[j] = N_a
        /\ root \o <<N_a>> \in C6_Reported
C7_ListedOf(np) == C7_Listed(Comps(np.val), NodeAt(np.val))

\* a root with the subdirectories a and .git: a is reported
C7_Witness ==
    C6_Walked /\ C7_ListedOf(CallPath)

\* C8: for every path text p and every wrapping of p in a leading fence
\* with or without a language hint, a trailing fence, single backticks and
\* newlines or blanks around the markers, the clean-up and normalization of
\* the wrapped text give the same absolute path as those of p alone.
C8_AsStated ==
    sanOut.done => sanOut = SanitizeResult(SanitizePath(sanIn.p))

\* the errors of the three preconditions of a directory tool, and the
\* first precondition that fails
C9_Messages ==
    <<"Could not normalize path '", "Directory does not exist: ",
      "Path exists but is not a directory: ">>
C9_FirstFailing(np, kind) ==
    IF np.raised THEN 1
    ELSE IF kind \notin {"dir", "file"} THEN 2
    ELSE IF kind # "dir" THEN 3
    ELSE 0
C9_Decided(ff) ==
    /\ \A i, j \in 1..3 : i # j => C9_Messages[i] # C9_Messages[j]
    /\ ff # 0 =>
          /\ IsError(result)
          /\ result.out[1][1] = "[Error]: "
          /\ result.out[1][2] = C9_Messages[ff]
          /\ ~Enumerated(result)
    /\ ff = 0 =>
          /\ Enumerated(result)
          /\ \A i \in 1..3 : ~(IsError(result) /\ result.out[1][2] = C9_Messages[i])
C9_DecidedAt(np) ==
    C9_Decided(C9_FirstFailing(np, IF np.raised THEN "missing" ELSE NodeAt(np.val).kind))

\* C9: list_directories, list_files and show_directory_structure check, in
\* this order, that the path normalizes, that it exists and that it is a
\* directory; the first precondition that fails alone decides the result,
\* the three errors are different strings beginning with "[Error]:", and no
\* directory is enumerated when a precondition fails.
C9_PreconditionOrder ==
    call.tool \in DirTools => C9_DecidedAt(CallPath)

\* a regular file given to show_directory_structure: the not-a-directory error
C9_Witness ==
    /\ call.tool = "show_directory_structure"
    /\ ~CallPath.raised /\ CallNode.kind = "file"
    /\ IsError(result) /\ result.out[1][2] = "Path exists but is not a directory: "

\* the lines of the entries of the root in a rendered tree, and the name on
\* such a line
C10_Rendered ==
    /\ call.tool = "show_directory_structure"
    /\ ~CallPath.raised /\ CallNode.kind = "dir" /\ ~CallNode.denied
    /\ Has(result.io, "listdir")
C10_TopLines ==
    {k \in 2..Len(result.out) : result.out[k][1] \in {BranchConn, LastConn}}
C10_Name(k) ==
    LET seg == result.out[k]
        stop == Min({i \in 2..(Len(seg) + 1) :
                        i = Len(seg) + 1 \/ seg[i] \in {"/", " ("}})
    IN SubSeq(seg, 2, stop - 1)
C10_SortedTop ==
    C10_Rendered =>
        \A k, l \in C10_TopLines :
            /\ k < l => StrLess(C10_Name(k), C10_Name(l))
            /\ result.out[k][1] = LastConn <=> k = Max(C10_TopLines)
C10_SameAgain ==
    (call.tool = "show_directory_structure" /\ call' = call /\ fs' = fs) => result' = result

\* C10: whatever the directory tree and the order the system enumerates
\* entries in, a second call of show_directory_structure on the unchanged
\* directory returns the same output as the first: the entries that are
\* kept are rendered in sorted order, the last of them with the last-branch
\* connector and the others with the branch connector.
C10_Deterministic == [][C10_SameAgain]_vars /\ []C10_SortedTop

\* a tree rendered while the system enumerates the two entries of its root
\* against their sorted order
C10_Witness ==
    /\ C10_Rendered
    /\ Len(CallNode.entries) = 2
    /\ StrLess(CallNode.entries[2], CallNode.entries[1])
    /\ Cardinality(C10_TopLines) = 2
    /\ result = ShowStructureRun(call.raw)

\* the error line of a directory that cannot be read, under a prefix
C11_ErrorLine(prefix) == prefix \o <<"[Error reading directory: ", "PermissionError", "]">>
\* the render before with the root unreadable, and after with it readable
C11_AtRoot(before, after) ==
    /\ before = <<before[1], C11_ErrorLine(<<>>)>>
    /\ after[1] = before[1]
    /\ Len(after) >= 2 => after[2] # C11_ErrorLine(<<>>)
\* the render before with the entry name of the root unreadable, its line
\* being line k, and after with it readable
C11_AtLine(before, after, name, k, pfx, n) ==
    /\ before[k] \in {<<BranchConn>> \o name \o <<"/">>, <<LastConn>> \o name \o <<"/">>}
    /\ before[k + 1] = C11_ErrorLine(<<pfx>>)
    /\ n >= 0
    /\ after = SubSeq(before, 1, k) \o SubSeq(after, k + 1, k + n)
                 \o SubSeq(before, k + 2, Len(before))
    /\ \A i \in (k + 1)..(k + n) : after[i][1] = pfx /\ after[i] # C11_ErrorLine(<<pfx>>)
C11_AtEntry(before, after, name) ==
    \E k \in 2..(Len(before) - 1) :
        C11_AtLine(before, after, name, k,
                   IF before[k][1] = LastConn THEN LastPrefix ELSE BranchPrefix,
                   Len(after) - Len(before) + 1)
C11_Related(rootText, root, rootNode, d, before, after) ==
    IF rootNode.kind # "dir" THEN after = before
    ELSE /\ before[1] = rootText \o <<"/">>
         /\ IF d = root THEN C11_AtRoot(before, after)
            ELSE IF Len(d) = Len(root) + 1 /\ IsPrefix(root, d) /\ ~rootNode.denied
                    /\ d[Len(d)] \notin C7_Names
            THEN C11_AtEntry(before, after, d[Len(d)])
            ELSE after = before
C11_RelatedAt(np, d, before, after) ==
    ~np.raised => C11_Related(np.val, Comps(np.val), NodeAt(np.val), d, before, after)
C11_Step ==
    (call.tool = "show_directory_structure" /\ call' = call /\ fs' = fs
        /\ Cardinality(granted) = 1) =>
        C11_RelatedAt(CallPath, CHOOSE d \in granted : TRUE, result.out, result'.out)

\* C11: when show_directory_structure cannot enumerate a directory within
\* its depth limit, the tree has an error line at the place of that
\* directory, and every other line is the one the tree has once the
\* directory can be read: the lines before it and the lines after it are the
\* same, and the result is the tree, never an error in its place.
C11_InlineError == [][C11_Step]_vars

\* the tree of /a with the entries b, d and f, where d cannot be read
C11_Witness ==
    /\ call.tool = "show_directory_structure"
    /\ call.raw = PathText(<<N_a>>)
    /\ Len(fs[<<N_a>>].entries) = 3 /\ ~fs[<<N_a>>].denied
    /\ fs[<<N_a, N_d>>].denied /\ Len(fs[<<N_a, N_d>>].entries) = 2
    /\ \E k \in 3..(Len(result.out) - 2) : result.out[k + 1] = C11_ErrorLine(<<BranchPrefix>>)

\* the result of a call, from its arguments and the filesystem alone
C12_RunOf(c) ==
    CASE c.tool = "list_directories" -> ListDirectoriesRun(c.raw)
      [] c.tool = "list_files" -> ListFilesRun(c.raw)
      [] c.tool = "show_directory_structure" -> ShowStructureRun(c.raw)
      [] c.tool = "view_file" -> ViewFileRun(c.raw)
      [] c.tool = "view_file_lines" -> ViewFileLinesRun(c.raw, c.startLine, c.endLine)
      [] OTHER -> NoResult
C12_ToolStep == call' # NoCall /\ (call' # call \/ result' # result)
C12_Step ==
    C12_ToolStep =>
        /\ fs' = fs
        /\ sanIn' = sanIn /\ sanOut' = sanOut
        /\ result' = C12_RunOf(call')

\* C12: a call of any of the five tools, whether it returns its output or
\* an error string, leaves the filesystem (entries, contents, sizes,
\* permissions) and every other piece of state as it was, and its result is
\* the one determined by its arguments and the filesystem alone, whatever
\* calls were made before it.
C12_ReadOnly == [][C12_Step]_vars

\* view_file has read a file and returned its text, on a filesystem that has
\* a directory whose entries are enumerated out of order
C12_Witness ==
    /\ call.tool = "view_file"
    /\ Has(result.io, "read") /\ ~IsError(result)
    /\ \E d \in DOMAIN fs :
          fs[d].kind = "dir" /\ Len(fs[d].entries) >= 2 /\ fs[d].entries # Sorted(fs[d].entries)

\* a line of the result is the "File: " line of the entry at itemPath
C13_LineOf(line, itemPath) ==
    /\ Len(line) >= 1 + Len(itemPath)
    /\ line[1] = "File: "
    /\ SubSeq(line, 2, 1 + Len(itemPath)) = itemPath
    /\ (Len(line) > 1 + Len(itemPath) => line[2 + Len(itemPath)] = " (")
C13_Message(nd, comps, node, regular, out) ==
    IF regular = {}
    THEN out = << <<"No files found in ">> \o nd >>
    ELSE /\ Len(out) >= 2
         /\ out[1] = <<"Files in ">> \o nd \o <<":">>
         /\ out[2][1] = "File: "
         /\ \A k \in 2..Len(out) :
               \/ out[k] = TruncationNotice
               \/ \E i \in regular : C13_LineOf(out[k], PathJoin(nd, node.entries[i]))
C13_MessageAt(nd, comps, node, out) ==
    C13_Message(nd, comps, node, C5_RegularFiles(comps, node), out)
C13_Listed(np, readable) ==
    (~np.raised /\ NodeAt(np.val).kind = "dir" /\ (readable => ~NodeAt(np.val).denied)) =>
        C13_MessageAt(np.val, Comps(np.val), NodeAt(np.val), result.out)

\* C13 as the specification states it: for every existing directory,
\* list_files returns "No files found in ..." when the directory holds no
\* regular file, and the "Files in ..." header with at least one "File: "
\* line, of immediate regular files only, when it holds one.
C13_AsStated == call.tool = "list_files" => C13_Listed(CallPath, FALSE)

\* C13: for every existing directory that can be enumerated, list_files
\* returns "No files found in ..." when the directory holds no regular file
\* (no entry, or subdirectories and other entries only) and never a header
\* with no entry under it; when it holds a regular file it returns the
\* "Files in ..." header and under it at least one "File: " line, every
\* line being that of a regular file directly in the directory.
C13_NoFilesMessage == call.tool = "list_files" => C13_Listed(CallPath, TRUE)

\* list_files on a directory whose only entries are no regular files
C13_WitnessAt(np) ==
    /\ ~np.raised
    /\ NodeAt(np.val).kind = "dir" /\ ~NodeAt(np.val).denied
    /\ NodeAt(np.val).entries # <<>>
    /\ C5_RegularFiles(Comps(np.val), NodeAt(np.val)) = {}
    /\ result.out = << <<"No files found in ">> \o np.val >>
C13_Witness == call.tool = "list_files" /\ C13_WitnessAt(CallPath)

C14_NoNotice(comps, node) ==
    (node.kind = "dir" /\ Cardinality(C5_RegularFiles(comps, node)) <= MaxFilesShown) =>
        C5_Notices = {}
C14_NoNoticeAt(np) == ~np.raised => C14_NoNotice(Comps(np.val), NodeAt(np.val))

\* C14 as the specification states it: for every directory with at most 50
\* regular files, whatever the number of its other entries and their places
\* in the enumeration, the result of list_files has no truncation notice.
C14_AsStated == call.tool = "list_files" => C14_NoNoticeAt(CallPath)

\* the last run of main ended by printing the success message
C15_Succeeded(r) ==
    r.out # <<>> /\ r.out[Len(r.out)] = <<"Process completed successfully!">>
C15_ClonedExactlyWhen ==
    Has(run'.ops, "clone_from") <=> (repo.kind # "git" \/ run'.force)
C15_VectorizedExactlyWhen ==
    run'.end # "exited" => (Has(run'.ops, "load") <=> (~vdb.built \/ run'.force))
C15_NothingAgain ==
    (C15_Succeeded(run) /\ ~run'.force) =>
        (run'.ops = <<>> /\ repo' = repo /\ vdb' = vdb)
C15_ForcedRebuild ==
    (run'.force /\ C15_Succeeded(run')) =>
        /\ repo.kind # "absent" => Has(run'.ops, "rmtree repo")
        /\ vdb.built => Has(run'.ops, "rmtree faiss")
        /\ Has(run'.ops, "clone_from") /\ repo' = GitRepo(remote)
        /\ Has(run'.ops, "save_local") /\ vdb' = Vdb(TRUE, TRUE, remote)
C15_Step ==
    /\ C15_ClonedExactlyWhen
    /\ C15_VectorizedExactlyWhen
    /\ C15_NothingAgain
    /\ C15_ForcedRebuild

\* C15 as the specification states it: a run of main clones exactly when
\* the repository path holds no git repository or force is set and, once
\* the repository is there, vectorizes exactly when the index does not
\* exist or force is set; a run without force after a run that reported
\* success clones nothing, deletes nothing, vectorizes nothing and leaves
\* the repository and the index as they were; a run with force that
\* reports success has deleted the repository and the index that existed
\* and built both again.
C15_AsStated == [][C15_Step]_vars

\* C16 as the specification states it: whenever a run of main has ended by
\* printing the success message, a git repository is at the repository
\* path and the index exists at vtm_faiss under the vector database path;
\* when cloning failed, the run printed no success message, did not start
\* vectorization and did not delete the index.
C16_AsStated ==
    /\ C15_Succeeded(run) => (repo.kind = "git" /\ vdb.built)
    /\ run.end = "exited" =>
          /\ ~C15_Succeeded(run)
          /\ ~Has(run.ops, "load") /\ ~Has(run.ops, "rmtree faiss")

=============================================================================
